---- MODULE Spec2Model ----
(***************************************************************************)
(* The report service of go-service/main.go: the process-wide credential   *)
(* store authTokens, authenticateWithBackend (the login exchange),         *)
(* fetchStudentData (freshness check, read request, one retry on 401) and   *)
(* generateReportHandler, one goroutine per inbound request.                *)
(*                                                                         *)
(* Granularity: every read or write of a field of authTokens is a step of   *)
(* its own (the code takes no lock, main.go:144-152, 225-230), as is every  *)
(* outbound call.  Code that touches only locals (status classification,    *)
(* decoding, rendering) is part of the step that precedes it.               *)
(*                                                                         *)
(* Tokens are opaque: the three cookies of the n-th login answered by the   *)
(* upstream all carry the value n, and 0 is the empty string.  Time is in   *)
(* minutes since the process started.                                       *)
(***************************************************************************)
EXTENDS Integers, Sequences, FiniteSets, TLC

VARIABLES
    authTokens,   \* the credential store, main.go:65-70
    now,          \* the clock, in minutes
    running,      \* the process has not exited
    listening,    \* http.ListenAndServe has been reached
    logins,       \* login requests the upstream has received
    conforms,     \* every 200 login response so far set all three cookies
    pc,           \* where each goroutine is
    loc,          \* each goroutine's locals
    health        \* the last answer of healthCheckHandler

vars ==
    <<authTokens, now, running, listening, logins, conforms, pc, loc, health>>

----------------------------------------------------------------------------
(* Bounds *)

\* login requests the upstream answers in one run of the process
MaxLogins == 3
\* the clock advances this many times, TickMinutes at a time
MaxTicks == 2

----------------------------------------------------------------------------
(* Program constants *)

\* main.go:211  14*time.Minute
FreshMinutes == 14
\* http.StatusOK
StatusOK == 200
\* http.StatusUnauthorized
StatusUnauthorized == 401
\* http.StatusNotFound
StatusNotFound == 404
\* http.StatusBadRequest
StatusBadRequest == 400
\* http.StatusInternalServerError
StatusInternalServerError == 500
\* the zero time.Time of the package-level authTokens
ZeroTime == -1

\* one step of the clock: the freshness window, so that a session is seen at
\* exactly 14 minutes of age and at 28
TickMinutes == FreshMinutes

----------------------------------------------------------------------------
(* Actors and inputs *)

Main == 0
\* the report requests, one goroutine each, running concurrently
Requests == {1, 2}
Actors == {Main} \cup Requests

\* {id} path segments (mux matches a non-empty segment), as character lists
PathIds ==
    { <<"4", "2">>, <<"0">>, <<"-", "1">>, <<"a", "b", "c">>, <<"1", "x">>,
      <<"-">> }

\* the Set-Cookie names of a login response, in header order: the three session
\* tokens, or the access token alone
CookieLists ==
    { <<"accessToken", "refreshToken", "csrfToken">>,
      <<"accessToken">> }

\* what client.Post / client.Do return: a status, or 0 for a transport error
TransportError == 0
LoginStatuses == {TransportError, StatusOK, StatusUnauthorized}
ReadStatuses ==
    {TransportError, StatusOK, 201, StatusUnauthorized, StatusNotFound,
     StatusInternalServerError}

\* no response yet
NoStatus == -1

Fields == {"accessToken", "refreshToken", "csrfToken"}

\* nothing written to the http.ResponseWriter yet
NoResponse == [status |-> 0, body |-> ""]

----------------------------------------------------------------------------
(* strconv.Atoi and the handler's validation *)

DigitVal ==
    [c \in {"0", "1", "2", "3", "4", "5", "6", "7", "8", "9"} |->
        CASE c = "0" -> 0 [] c = "1" -> 1 [] c = "2" -> 2 [] c = "3" -> 3
          [] c = "4" -> 4 [] c = "5" -> 5 [] c = "6" -> 6 [] c = "7" -> 7
          [] c = "8" -> 8 [] c = "9" -> 9]

RECURSIVE ParseDigits(_, _)
ParseDigits(s, acc) ==
    IF s = <<>> THEN [err |-> FALSE, n |-> acc]
    ELSE IF Head(s) \notin DOMAIN DigitVal THEN [err |-> TRUE, n |-> 0]
    ELSE ParseDigits(Tail(s), acc * 10 + DigitVal[Head(s)])

\* strconv.Atoi: an optional sign, then one or more decimal digits
\* (ids this short cannot leave the range of int)
Atoi(s) ==
    LET signed == s /= <<>> /\ Head(s) \in {"+", "-"}
        body == IF signed THEN Tail(s) ELSE s
        r == IF body = <<>> THEN [err |-> TRUE, n |-> 0] ELSE ParseDigits(body, 0)
    IN  IF r.err THEN r
        ELSE [err |-> FALSE, n |-> IF signed /\ Head(s) = "-" THEN 0 - r.n ELSE r.n]

ValidID_AcceptsZero(studentID) ==
    LET r == Atoi(studentID) IN ~(r.err \/ r.n < 0)

\* main.go:177-178  the request is rejected when err != nil || id <= 0
ValidID(studentID) ==
    LET r == Atoi(studentID) IN ~(r.err \/ r.n <= 0)

----------------------------------------------------------------------------
(* fetchStudentData's decisions *)

\* a freshness window twice as long
Stale_DoubleWindow(lastRefresh, t) ==
    lastRefresh = ZeroTime \/ t - lastRefresh > 2 * FreshMinutes

Stale_AtWindow(lastRefresh, t) ==
    lastRefresh = ZeroTime \/ t - lastRefresh >= FreshMinutes

\* main.go:211  time.Since(authTokens.lastRefresh) > 14*time.Minute
\* (time.Since of the zero time saturates at the largest Duration)
Stale(lastRefresh, t) ==
    lastRefresh = ZeroTime \/ t - lastRefresh > FreshMinutes

AfterFirst_No401Retry(status) ==
    IF status = TransportError THEN "transport"
    ELSE IF status = StatusNotFound THEN "notfound"
    ELSE IF status /= StatusOK THEN "upstream"
    ELSE "decode"

AfterFirst_Retry404(status) ==
    IF status = TransportError THEN "transport"
    ELSE IF status \in {StatusUnauthorized, StatusNotFound} THEN "reauth"
    ELSE IF status /= StatusOK THEN "upstream"
    ELSE "decode"

\* a first response of any status from 200 to 299 is decoded
AfterFirst_Any2xx(status) ==
    IF status = TransportError THEN "transport"
    ELSE IF status = StatusUnauthorized THEN "reauth"
    ELSE IF status = StatusNotFound THEN "notfound"
    ELSE IF status \notin 200..299 THEN "upstream"
    ELSE "decode"

\* main.go:233-270  what the first response leads to
AfterFirst(status) ==
    IF status = TransportError THEN "transport"
    ELSE IF status = StatusUnauthorized THEN "reauth"
    ELSE IF status = StatusNotFound THEN "notfound"
    ELSE IF status /= StatusOK THEN "upstream"
    ELSE "decode"

\* a retried request whose 404 is reported as the not-found failure
AfterRetry_NotFound(status) ==
    IF status = TransportError THEN "transport_retry"
    ELSE IF status = StatusNotFound THEN "notfound"
    ELSE IF status /= StatusOK THEN "upstream_retry"
    ELSE "decode"

AfterRetry_Again(status) ==
    IF status = TransportError THEN "transport_retry"
    ELSE IF status = StatusUnauthorized THEN "reauth"
    ELSE IF status /= StatusOK THEN "upstream_retry"
    ELSE "decode"

\* main.go:255-264  what the response to the retried request leads to
AfterRetry(status) ==
    IF status = TransportError THEN "transport_retry"
    ELSE IF status /= StatusOK THEN "upstream_retry"
    ELSE "decode"

\* main.go:273-278  the body is decoded into a StudentDetail
Decoded(next, bodyOk) ==
    IF next /= "decode" THEN next ELSE IF bodyOk THEN "ok" ELSE "decode_error"

\* main.go:225-230  the request's cookies and header, in the order they are set,
\* each with the field of authTokens it is read from
BuildSteps ==
    << [part |-> "accessToken", field |-> "accessToken"],
       [part |-> "refreshToken", field |-> "refreshToken"],
       [part |-> "csrfToken", field |-> "csrfToken"],
       [part |-> "X-CSRF-Token", field |-> "csrfToken"] >>

NoRequest ==
    [part \in {"accessToken", "refreshToken", "csrfToken", "X-CSRF-Token"} |-> 0]

----------------------------------------------------------------------------
(* State *)

\* a goroutine's locals and the record of what its fetch has done so far; a
\* local is back at its initial value once the code no longer reads it
InitLoc ==
    [ studentID |-> <<>>,       \* the path id of the request
      site |-> "none",          \* the caller of authenticateWithBackend
      cookies |-> <<>>,         \* resp.Cookies() still to be looked at
      session |-> 0,            \* the login the upstream answered for this run
      newSession |-> 0,         \* the login of the re-authentication on 401
      wrote |-> {},             \* fields of authTokens this run has assigned
      k |-> 1,                  \* the next of BuildSteps
      req |-> NoRequest,        \* the request being built
      attempt |-> 1,            \* 1: the first request, 2: the retry
      fresh |-> FALSE,          \* before the first request is sent: the session
                                \* was at most 14 minutes old at the check
      stale |-> FALSE,          \* before the first request is sent: the session
                                \* was older than that at the check
      authsProactive |-> 0,     \* calls of the Authenticator at main.go:214
      auths401 |-> 0,           \* calls of the Authenticator at main.go:244
      reads |-> 0,              \* client.Do calls
      status1 |-> NoStatus,     \* the first response's status
      status2 |-> NoStatus,     \* the retry response's status
      result |-> "none",        \* fetchStudentData's return
      httpStatus |-> 0,         \* the handler's response status
      body |-> "",              \* the handler's response body
      pdf |-> FALSE ]           \* the handler wrote the document

Init ==
    /\ authTokens =
          [accessToken |-> 0, refreshToken |-> 0, csrfToken |-> 0,
           lastRefresh |-> ZeroTime]
    /\ now = 0
    /\ running = TRUE
    /\ listening = FALSE
    /\ logins = 0
    /\ conforms = TRUE
    /\ health = NoResponse
    /\ pc = [p \in Actors |-> IF p = Main THEN "auth_post" ELSE "idle"]
    /\ loc = [p \in Actors |->
                IF p = Main THEN [InitLoc EXCEPT !.site = "main"] ELSE InitLoc]

----------------------------------------------------------------------------
(* Time *)

\* the clock is read at main.go:162 and 211; start-up takes less than one step
\* of it
Tick ==
    /\ running
    /\ listening
    /\ now + TickMinutes <= MaxTicks * TickMinutes
    /\ now' = now + TickMinutes
    /\ UNCHANGED <<authTokens, running, listening, logins, conforms, pc, loc, health>>

----------------------------------------------------------------------------
(* authenticateWithBackend, main.go:115-163, run by main and by fetches *)

\* where authenticateWithBackend returns to: main.go:77, 214, 244
ReturnTo(site) == IF site = "main" THEN "listen" ELSE "build"

\* a failure that is logged, after which authenticateWithBackend returns
Fatalf_LogAndReturn(p) ==
    /\ running' = running
    /\ pc' = [pc EXCEPT ![p] = ReturnTo(loc[p].site)]

\* log.Fatalf: the message is logged and the process exits
Fatalf(p) ==
    /\ running' = FALSE
    /\ pc' = [pc EXCEPT ![p] = "fatal"]

\* the cookies of a login response include the three session tokens
SetsAll(cookies) == Fields \subseteq {cookies[i] : i \in DOMAIN cookies}

\* main.go:131-141  the login request is posted; a transport error or a
\* status other than 200 is fatal
AuthPost(p) ==
    /\ running
    /\ pc[p] = "auth_post"
    /\ logins < MaxLogins
    /\ logins' = logins + 1
    /\ \E status \in LoginStatuses, cookies \in CookieLists :
          IF status /= StatusOK
          THEN /\ Fatalf(p)
               /\ loc' = [loc EXCEPT ![p].wrote = {}, ![p].session = 0]
               /\ UNCHANGED conforms
          ELSE /\ pc' = [pc EXCEPT ![p] = "auth_cookies"]
               /\ loc' = [loc EXCEPT ![p].wrote = {},
                                     ![p].session = logins + 1,
                                     ![p].cookies = cookies]
               /\ conforms' = (conforms /\ SetsAll(cookies))
               /\ UNCHANGED running
    /\ UNCHANGED <<authTokens, now, listening, health>>

\* main.go:144-152  one iteration of the loop over resp.Cookies(): the field
\* named like the cookie is assigned (the responses here carry no other cookie)
AuthCookie(p) ==
    /\ running
    /\ pc[p] = "auth_cookies"
    /\ loc[p].cookies /= <<>>
    /\ LET name == Head(loc[p].cookies) IN
          /\ authTokens' = [authTokens EXCEPT ![name] = loc[p].session]
          /\ loc' = [loc EXCEPT ![p].cookies = Tail(@),
                                ![p].wrote = @ \cup {name}]
    /\ UNCHANGED <<now, running, listening, logins, conforms, pc, health>>

\* main.go:154-162  the body is decoded (fatal when it does not decode), then
\* lastRefresh is stamped and the call returns
AuthDecode(p) ==
    /\ running
    /\ pc[p] = "auth_cookies"
    /\ loc[p].cookies = <<>>
    /\ \E bodyOk \in BOOLEAN :
          IF ~bodyOk
          THEN /\ Fatalf(p)
               /\ UNCHANGED <<authTokens, loc>>
          ELSE /\ authTokens' = [authTokens EXCEPT !.lastRefresh = now]
               /\ loc' = [loc EXCEPT
                     ![p].wrote = {},
                     ![p].session = 0,
                     ![p].newSession =
                        IF loc[p].site = "on401" THEN loc[p].session ELSE @]
               /\ pc' = [pc EXCEPT ![p] = ReturnTo(loc[p].site)]
               /\ UNCHANGED running
    /\ UNCHANGED <<now, listening, logins, conforms, health>>

\* main.go:79-89  the routes are registered and the server listens
Serve ==
    /\ running
    /\ pc[Main] = "listen"
    /\ listening' = TRUE
    /\ pc' = [pc EXCEPT ![Main] = "serving"]
    /\ UNCHANGED <<authTokens, now, running, logins, conforms, loc, health>>

----------------------------------------------------------------------------
(* generateReportHandler and fetchStudentData *)

\* main.go:171-184  a request arrives and its id is validated
Receive(h) ==
    /\ running
    /\ listening
    /\ pc[h] = "idle"
    /\ \E s \in PathIds :
          IF ValidID(s)
          THEN /\ pc' = [pc EXCEPT ![h] = "fetch"]
               /\ loc' = [loc EXCEPT ![h].studentID = s]
          ELSE /\ pc' = [pc EXCEPT ![h] = "done"]
               /\ loc' = [loc EXCEPT ![h].studentID = s,
                                     ![h].httpStatus = StatusBadRequest,
                                     ![h].body = "Invalid student ID"]
    /\ UNCHANGED <<authTokens, now, running, listening, logins, conforms, health>>

\* a session stamped at lastRefresh is at most FreshMinutes old at time t
Young(lastRefresh, t) ==
    lastRefresh /= ZeroTime /\ t - lastRefresh <= FreshMinutes

\* a freshness check that extends a session it finds fresh
FetchCheck_Touch(h) ==
    /\ running
    /\ pc[h] = "fetch"
    /\ IF Stale(authTokens.lastRefresh, now)
       THEN /\ pc' = [pc EXCEPT ![h] = "auth_post"]
            /\ loc' = [loc EXCEPT ![h].fresh = Young(authTokens.lastRefresh, now),
                                  ![h].stale = ~Young(authTokens.lastRefresh, now),
                                  ![h].site = "proactive",
                                  ![h].authsProactive = @ + 1]
            /\ UNCHANGED authTokens
       ELSE /\ pc' = [pc EXCEPT ![h] = "build"]
            /\ loc' = [loc EXCEPT ![h].fresh = Young(authTokens.lastRefresh, now),
                                  ![h].stale = ~Young(authTokens.lastRefresh, now)]
            /\ authTokens' = [authTokens EXCEPT !.lastRefresh = now]
    /\ UNCHANGED <<now, running, listening, logins, conforms, health>>

\* main.go:210-215  the freshness check
FetchCheck(h) ==
    /\ running
    /\ pc[h] = "fetch"
    /\ IF Stale(authTokens.lastRefresh, now)
       THEN /\ pc' = [pc EXCEPT ![h] = "auth_post"]
            /\ loc' = [loc EXCEPT ![h].fresh = Young(authTokens.lastRefresh, now),
                                  ![h].stale = ~Young(authTokens.lastRefresh, now),
                                  ![h].site = "proactive",
                                  ![h].authsProactive = @ + 1]
       ELSE /\ pc' = [pc EXCEPT ![h] = "build"]
            /\ loc' = [loc EXCEPT ![h].fresh = Young(authTokens.lastRefresh, now),
                                  ![h].stale = ~Young(authTokens.lastRefresh, now)]
    /\ UNCHANGED <<authTokens, now, running, listening, logins, conforms, health>>

\* main.go:225-230 and 248-253  one cookie or header is set from authTokens
BuildStep(h) ==
    /\ running
    /\ pc[h] = "build"
    /\ LET step == BuildSteps[loc[h].k] IN
          loc' = [loc EXCEPT ![h].req[step.part] = authTokens[step.field],
                             ![h].k = IF @ = Len(BuildSteps) THEN 1 ELSE @ + 1]
    /\ pc' = [pc EXCEPT ![h] = IF loc[h].k = Len(BuildSteps) THEN "do" ELSE "build"]
    /\ UNCHANGED <<authTokens, now, running, listening, logins, conforms, health>>

\* main.go:233-278  the request is executed and the response classified
Do(h) ==
    /\ running
    /\ pc[h] = "do"
    /\ \E status \in ReadStatuses, bodyOk \in BOOLEAN :
          LET first == loc[h].attempt = 1
              next == Decoded(IF first THEN AfterFirst(status)
                                       ELSE AfterRetry(status), bodyOk)
              seen == [loc EXCEPT ![h].reads = @ + 1,
                                  ![h].status1 = IF first THEN status ELSE @,
                                  ![h].status2 = IF first THEN @ ELSE status,
                                  ![h].req = NoRequest,
                                  ![h].fresh = FALSE,
                                  ![h].stale = FALSE]
          IN  IF next = "reauth"
              THEN /\ pc' = [pc EXCEPT ![h] = "auth_post"]
                   /\ loc' = [seen EXCEPT ![h].site = "on401",
                                          ![h].auths401 = @ + 1,
                                          ![h].attempt = 2]
              ELSE /\ pc' = [pc EXCEPT ![h] = "fetched"]
                   /\ loc' = [seen EXCEPT ![h].result = next]
    /\ UNCHANGED <<authTokens, now, running, listening, logins, conforms, health>>

\* a handler that passes a missing student on as 404
HandlerStatus_NotFound404(result, renderOk) ==
    IF result = "notfound" THEN StatusNotFound
    ELSE IF result /= "ok" THEN StatusInternalServerError
    ELSE IF ~renderOk THEN StatusInternalServerError
    ELSE StatusOK

\* main.go:185-202  the status the handler answers with
HandlerStatus(result, renderOk) ==
    IF result /= "ok" THEN StatusInternalServerError
    ELSE IF ~renderOk THEN StatusInternalServerError
    ELSE StatusOK

\* a handler that passes the fetch's error on to the client
HandlerBody_EchoesError(result, renderOk) ==
    IF result /= "ok" THEN result
    ELSE IF ~renderOk THEN "Error generating PDF"
    ELSE "pdfBytes"

\* main.go:185-202  the body the handler answers with: http.Error's message, or
\* the document
HandlerBody(result, renderOk) ==
    IF result /= "ok" THEN "Error fetching student data"
    ELSE IF ~renderOk THEN "Error generating PDF"
    ELSE "pdfBytes"

\* a handler that goes on to write the document after a failed render
Respond_NoReturn(h) ==
    /\ running
    /\ pc[h] = "fetched"
    /\ \E renderOk \in BOOLEAN :
          loc' = [loc EXCEPT ![h] =
                    [InitLoc EXCEPT
                       !.studentID = loc[h].studentID,
                       !.httpStatus = HandlerStatus(loc[h].result, renderOk),
                       !.body = HandlerBody(loc[h].result, renderOk),
                       !.pdf = loc[h].result = "ok"]]
    /\ pc' = [pc EXCEPT ![h] = "done"]
    /\ UNCHANGED <<authTokens, now, running, listening, logins, conforms, health>>

\* main.go:185-202  the fetch has returned: render and answer
Respond(h) ==
    /\ running
    /\ pc[h] = "fetched"
    /\ \E renderOk \in BOOLEAN :
          loc' = [loc EXCEPT ![h] =
                    [InitLoc EXCEPT
                       !.studentID = loc[h].studentID,
                       !.httpStatus = HandlerStatus(loc[h].result, renderOk),
                       !.body = HandlerBody(loc[h].result, renderOk),
                       !.pdf = HandlerStatus(loc[h].result, renderOk) = StatusOK]]
    /\ pc' = [pc EXCEPT ![h] = "done"]
    /\ UNCHANGED <<authTokens, now, running, listening, logins, conforms, health>>

----------------------------------------------------------------------------
(* healthCheckHandler *)

\* main.go:165-168  the status (the 200 a ResponseWriter defaults to) and the
\* encoded body
HealthResponse == [status |-> StatusOK, body |-> "{\"status\":\"ok\"}"]

\* a health check that reports on the session: unavailable while it is stale
Health_ChecksSession ==
    /\ running
    /\ listening
    /\ health' = IF Stale(authTokens.lastRefresh, now)
                 THEN [status |-> StatusInternalServerError, body |-> ""]
                 ELSE HealthResponse
    /\ UNCHANGED <<authTokens, now, running, listening, logins, conforms, pc, loc>>

\* main.go:84, 165-168  a GET /health is answered
Health ==
    /\ running
    /\ listening
    /\ health' = HealthResponse
    /\ UNCHANGED <<authTokens, now, running, listening, logins, conforms, pc, loc>>

----------------------------------------------------------------------------

Next ==
    \/ Tick
    \/ Serve
    \/ \E p \in Actors : AuthPost(p) \/ AuthCookie(p) \/ AuthDecode(p)
    \/ \E h \in Requests :
          Receive(h) \/ FetchCheck(h) \/ BuildStep(h) \/ Do(h) \/ Respond(h)

Spec == Init /\ [][Next]_vars

\* the service with its health route, beside one report request
HealthPeers == {1}

NextHealth ==
    \/ Tick
    \/ Serve
    \/ Health
    \/ \E p \in {Main} \cup HealthPeers :
          AuthPost(p) \/ AuthCookie(p) \/ AuthDecode(p)
    \/ \E h \in HealthPeers :
          Receive(h) \/ FetchCheck(h) \/ BuildStep(h) \/ Do(h) \/ Respond(h)

SpecHealth == Init /\ [][NextHealth]_vars

----------------------------------------------------------------------------
(* Properties *)

\* the session of login n: its three tokens
SessionOf(n) == [f \in Fields |-> n]
StoredTokens == [f \in Fields |-> authTokens[f]]
RequestTokens(h) == [f \in Fields |-> loc[h].req[f]]

\* C1: a fetch whose first read is answered 401 calls the Authenticator exactly
\* once in response and sends exactly one further read request; whatever the
\* second response is, there is no further login and no third read, and a
\* second response other than 200 makes the fetch return a failure.
C1_RetryOnce ==
    \A h \in Requests :
        /\ loc[h].reads <= 2
        /\ loc[h].auths401 = IF loc[h].status1 = StatusUnauthorized THEN 1 ELSE 0
        /\ loc[h].status2 /= NoStatus =>
              /\ loc[h].status1 = StatusUnauthorized
              /\ loc[h].reads = 2
              /\ pc[h] = "fetched"
              /\ loc[h].status2 /= StatusOK =>
                    loc[h].result \in {"transport_retry", "upstream_retry"}

C1_Witness ==
    \E h \in Requests :
        /\ pc[h] = "fetched"
        /\ loc[h].status1 = StatusUnauthorized
        /\ loc[h].status2 = StatusUnauthorized
        /\ loc[h].result = "upstream_retry"
        /\ loc[h].auths401 = 1
        /\ loc[h].reads = 2

\* C2: a reader of the credential store never observes a session in which
\* exactly one or two of the three tokens are populated: the three tokens a
\* fetch has read for one request are those of one write of
\* authenticateWithBackend, or all empty (stated for an upstream whose login
\* responses all carry the three cookies).
C2_NoPartialSession ==
    conforms =>
        \A h \in Requests :
            pc[h] = "do" =>
                \E n \in 0..MaxLogins : RequestTokens(h) = SessionOf(n)

\* C3: a failure of the Authenticator inside a fetch is confined to the
\* request: no fetch ends the process.
C3_AuthFailureConfined ==
    /\ \A h \in Requests : pc[h] /= "fatal"
    /\ ~running => pc[Main] = "fatal"

\* C4: an Authenticator run that fails has changed none of the three tokens
\* and not lastRefresh.
C4_FailedAuthLeavesStore ==
    \A p \in Actors : pc[p] = "fatal" => loc[p].wrote = {}

\* a decimal numeral, with an optional sign, of a value above zero
IsPositiveInteger(s) ==
    LET digits == IF s /= <<>> /\ Head(s) = "+" THEN Tail(s) ELSE s IN
        /\ digits /= <<>>
        /\ \A i \in DOMAIN digits : digits[i] \in DOMAIN DigitVal
        /\ \E i \in DOMAIN digits : digits[i] /= "0"

\* C5: a request whose path id is not a positive integer is answered 400, and
\* its handler has made no login request and no read request and has assigned
\* nothing in the credential store.
C5_InvalidIdRejected ==
    \A h \in Requests :
        (loc[h].studentID /= <<>> /\ ~IsPositiveInteger(loc[h].studentID)) =>
            /\ pc[h] = "done"
            /\ loc[h].httpStatus = StatusBadRequest
            /\ ~loc[h].pdf
            /\ loc[h].reads = 0
            /\ loc[h].authsProactive = 0
            /\ loc[h].auths401 = 0
            /\ loc[h].session = 0
            /\ loc[h].wrote = {}

C5_Witness ==
    \E h \in Requests :
        /\ pc[h] = "done"
        /\ loc[h].studentID = <<"0">>
        /\ loc[h].httpStatus = StatusBadRequest

\* C6: a fetch that found the session at most 14 minutes old at its freshness
\* check has not called the Authenticator when it sends its first request.
C6_FreshNoProactiveAuth ==
    \A h \in Requests :
        loc[h].fresh =>
            /\ pc[h] \in {"build", "do"}
            /\ loc[h].authsProactive = 0
            /\ loc[h].auths401 = 0
            /\ loc[h].reads = 0

C6_Witness ==
    \E h \in Requests :
        /\ pc[h] = "build"
        /\ loc[h].fresh
        /\ now - authTokens.lastRefresh = FreshMinutes

\* C7: a fetch whose first response is 404 returns the not-found failure at
\* once: no Authenticator run follows the 404 and no second request is sent.
C7_NotFoundTerminal ==
    \A h \in Requests :
        loc[h].status1 = StatusNotFound =>
            /\ pc[h] = "fetched"
            /\ loc[h].result = "notfound"
            /\ loc[h].reads = 1
            /\ loc[h].auths401 = 0
            /\ loc[h].status2 = NoStatus

C7_Witness ==
    \E h \in Requests :
        /\ loc[h].status1 = StatusNotFound
        /\ loc[h].result = "notfound"
        /\ loc[h].authsProactive = 1

\* C8 as stated: one fetch calls the Authenticator at most once in total,
\* the proactive refresh and the re-authentication on 401 counted together.
C8_AtMostOneAuth ==
    \A h \in Requests : loc[h].authsProactive + loc[h].auths401 <= 1

\* C8 amended: one fetch calls the Authenticator at most once for the proactive
\* refresh and at most once on 401, hence at most twice in total.
C8_AtMostOneAuthPerPath ==
    \A h \in Requests :
        /\ loc[h].authsProactive <= 1
        /\ loc[h].auths401 <= 1
        /\ loc[h].authsProactive + loc[h].auths401 <= 2

C8_Witness ==
    \E h \in Requests :
        /\ loc[h].authsProactive = 1
        /\ loc[h].auths401 = 1
        /\ pc[h] = "fetched"

\* authenticateWithBackend returns to its caller in this step
AuthReturns(p) == pc[p] = "auth_cookies" /\ pc'[p] \in {"listen", "build"}

\* C9: when an Authenticator run succeeds, the credential store holds the three
\* tokens of that run's login response and lastRefresh is the time of the run
\* (stated for an upstream whose login responses all carry the three cookies).
C9_SuccessfulAuthReplacesSession ==
    [][\A p \in Actors :
          (AuthReturns(p) /\ conforms) =>
              /\ StoredTokens' = SessionOf(loc[p].session)
              /\ authTokens'.lastRefresh = now]_vars

\* C10: first read 401, re-authentication succeeds, retried read 200 with a
\* decodable body: the retried request carried the tokens of the new session,
\* the handler answers 200 with the document (500 when rendering fails), and
\* the credential store then holds the new session (stated for an upstream
\* whose login responses all carry the three cookies).
C10_RetryWithNewSession ==
    [][\A h \in Requests :
          /\ (pc[h] = "do" /\ loc[h].attempt = 2 /\ loc'[h].result = "ok"
                /\ conforms) =>
                /\ RequestTokens(h) = SessionOf(loc[h].newSession)
                /\ loc[h].req["X-CSRF-Token"] = loc[h].newSession
          /\ (pc[h] = "fetched" /\ pc'[h] = "done" /\ conforms
                /\ loc[h].status1 = StatusUnauthorized /\ loc[h].result = "ok") =>
                /\ \/ loc'[h].httpStatus = StatusOK /\ loc'[h].pdf
                   \/ loc'[h].httpStatus = StatusInternalServerError /\ ~loc'[h].pdf
                /\ StoredTokens' = SessionOf(loc[h].newSession)]_vars

----------------------------------------------------------------------------
(* The handler's answer *)

\* the step in which handler h answers after its fetch returned
Answers(h) == pc[h] = "fetched" /\ pc'[h] = "done"

\* the ways fetchStudentData returns an error
FailureResults ==
    {"transport", "notfound", "upstream", "decode_error",
     "transport_retry", "upstream_retry"}

----------------------------------------------------------------------------
(* Start-up *)

\* handler h has taken up a request
Handling(h) == pc[h] /= "idle"

\* C12: whenever a report request is being handled or has been handled, the
\* service was listening, which it does only once the start-up login returned
\* successfully (a login has completed and stamped the store); a failed
\* start-up login ends the process, which then never listens nor takes up a
\* request
C12_NoHandlingBeforeStartupAuth ==
    /\ (\E h \in Requests : Handling(h)) =>
          /\ listening
          /\ pc[Main] = "serving"
          /\ logins >= 1
          /\ authTokens.lastRefresh /= ZeroTime
    /\ listening => pc[Main] = "serving" /\ authTokens.lastRefresh /= ZeroTime
    /\ pc[Main] = "fatal" =>
          ~listening /\ ~running /\ \A h \in Requests : ~Handling(h)

\* a request is in flight, about to send its read request
C12_Witness ==
    /\ running
    /\ \E h \in Requests : pc[h] = "do"

----------------------------------------------------------------------------
(* The health route *)

\* C13: in every state in which the service is up a GET /health can be
\* answered, and each answer is 200 with the body {"status":"ok"}, whatever
\* the store holds and whatever fetch or login is in flight; answering changes
\* neither the store nor any goroutine, and sends no request upstream
C13_HealthAlwaysOk ==
    /\ [](running /\ listening => ENABLED Health)
    /\ [][health' /= health =>
            /\ health' = [status |-> 200, body |-> "{\"status\":\"ok\"}"]
            /\ UNCHANGED <<authTokens, logins, now, running, listening, pc, loc>>]_vars

\* a health check was answered, and a report request with a stale session is
\* in the middle of its login, the store half written
C13_Witness ==
    /\ health.status = 200
    /\ Stale(authTokens.lastRefresh, now)
    /\ \E h \in HealthPeers :
          /\ pc[h] = "auth_cookies"
          /\ loc[h].wrote /= {}
          /\ StoredTokens /= SessionOf(logins)

----------------------------------------------------------------------------
(* The proactive refresh *)

\* fetch h is inside the Authenticator run of its freshness check
InProactiveAuth(h) ==
    pc[h] \in {"auth_post", "auth_cookies"} /\ loc[h].site = "proactive"

C14_WitnessFailed ==
    \E h \in Requests :
        /\ loc[h].stale
        /\ pc[h] = "fatal"
        /\ loc[h].reads = 0

----------------------------------------------------------------------------
(* Empty tokens *)

\* C15: every read request that is sent carries a non-empty accessToken,
\* refreshToken and csrfToken cookie and a non-empty X-CSRF-Token header: a
\* store with an empty token is not used to build a request that is sent
C15_ReadCarriesTokens ==
    \A h \in Requests :
        pc[h] = "do" =>
            \A part \in DOMAIN NoRequest : loc[h].req[part] /= 0

----------------------------------------------------------------------------
(* The first response *)

\* a response arrived and carried this status
IsStatus(status) == status \notin {NoStatus, TransportError}

Is2xx(status) == status \in 200..299

\* the fetch of h has returned an upstream error after its first read, without
\* any re-authentication or second read
UpstreamErrorAfterFirst(h) ==
    /\ pc[h] = "fetched"
    /\ loc[h].result = "upstream"
    /\ loc[h].reads = 1
    /\ loc[h].auths401 = 0
    /\ loc[h].status2 = NoStatus

\* C16: a first response with any status from 200 to 299 leads to decoding (the
\* fetch returns the record or a decode error), and a first response with any
\* other status except 401 and 404 ends the fetch with an upstream error, with
\* no Authenticator run and no second read
C16_FirstReadClassified ==
    \A h \in Requests :
        LET status == loc[h].status1 IN
        /\ IsStatus(status) /\ Is2xx(status) =>
              pc[h] = "fetched" /\ loc[h].result \in {"ok", "decode_error"}
        /\ IsStatus(status) /\ ~Is2xx(status)
             /\ status \notin {StatusUnauthorized, StatusNotFound} =>
              UpstreamErrorAfterFirst(h)

\* C16, amended: a first response with status exactly 200 leads to decoding, and
\* a first response with any other status except 401 and 404, the other
\* statuses from 201 to 299 included, ends the fetch with an upstream error,
\* with no Authenticator run and no second read
C16_FirstReadClassifiedExactly200 ==
    \A h \in Requests :
        LET status == loc[h].status1 IN
        /\ IsStatus(status) /\ status = StatusOK =>
              /\ pc[h] = "fetched"
              /\ loc[h].result \in {"ok", "decode_error"}
              /\ loc[h].reads = 1
        /\ IsStatus(status)
             /\ status \notin {StatusOK, StatusUnauthorized, StatusNotFound} =>
              UpstreamErrorAfterFirst(h)

\* one fetch got 201 and returned an upstream error, the other got 200 with a
\* body that does not decode
C16_Witness ==
    /\ loc[1].status1 = 201
    /\ UpstreamErrorAfterFirst(1)
    /\ loc[2].status1 = StatusOK
    /\ pc[2] = "fetched"
    /\ loc[2].result = "decode_error"

----------------------------------------------------------------------------
(* Concurrent refreshes *)

\* the freshness check of h found the session stale, and the Authenticator run
\* it started has returned
RefreshedProactively(h) ==
    /\ loc[h].stale
    /\ loc[h].authsProactive = 1
    /\ pc[h] \in {"build", "do"}

\* C17: when all the concurrent fetches found the session stale and each one's
\* own Authenticator run has returned, there was one login per fetch (no run
\* was shared), and the store holds the complete session of one of those
\* logins
C17_ConcurrentRefreshes ==
    (conforms /\ \A h \in Requests : RefreshedProactively(h)) =>
        /\ logins = 1 + Cardinality(Requests)
        /\ \E n \in 2..logins : StoredTokens = SessionOf(n)

----------------------------------------------------------------------------
(* Termination of a fetch *)

\* a step of the goroutine that handles request h
HandlerStep(h) ==
    \/ FetchCheck(h)
    \/ AuthPost(h) \/ AuthCookie(h) \/ AuthDecode(h)
    \/ BuildStep(h)
    \/ Do(h)

\* fetchStudentData was called for h and has not returned
InFetch(h) == pc[h] \notin {"idle", "fetched", "done"}

\* C18: every fetch returns a record or an error: a fetch that has not returned
\* can always take its next step (every outbound call being answered or timing
\* out), it sends at most two read requests, the second one only after the
\* first was answered 401, and it re-authenticates at most once for a 401, so
\* no fetch stops short of returning and none goes round for ever
C18_FetchTerminates ==
    \A h \in Requests :
        conforms =>
        /\ loc[h].reads <= 2
        /\ loc[h].auths401 <= 1
        /\ loc[h].attempt = 2 \/ loc[h].reads = 2 =>
              loc[h].status1 = StatusUnauthorized
        /\ InFetch(h) =>
              \/ ENABLED HandlerStep(h)
              \/ pc[h] = "auth_post" /\ logins = MaxLogins

----------------------------------------------------------------------------
(* Who writes the store *)

\* this step is taken by goroutine p alone
StepOf(p) ==
    /\ pc'[p] /= pc[p] \/ loc'[p] /= loc[p]
    /\ \A q \in Actors \ {p} : pc'[q] = pc[q] /\ loc'[q] = loc[q]

\* C19: the store changes only in steps of authenticateWithBackend: a token
\* changes only in a step of a run's cookie loop, lastRefresh only in the step
\* in which a run returns; the freshness check, the building and sending of a
\* request, the classification of a response, the handler's answer and the
\* passing of time leave the store as it is
C19_OnlyAuthWritesStore ==
    [][authTokens' /= authTokens =>
         \E p \in Actors :
            /\ StepOf(p)
            /\ pc[p] = "auth_cookies"
            /\ IF pc'[p] = "auth_cookies"
               THEN authTokens'.lastRefresh = authTokens.lastRefresh
               ELSE /\ AuthReturns(p)
                    /\ StoredTokens' = StoredTokens]_vars

\* a whole fetch, from the freshness check to the decoded record, has run on
\* the start-up session and the store is as the start-up login left it
C19_Witness ==
    /\ logins = 1
    /\ StoredTokens = SessionOf(1)
    /\ authTokens.lastRefresh = 0
    /\ \E h \in Requests :
          /\ pc[h] = "fetched"
          /\ loc[h].result = "ok"
          /\ loc[h].reads = 1
          /\ loc[h].authsProactive = 0
          /\ loc[h].auths401 = 0

----------------------------------------------------------------------------
(* What a client learns of a failed fetch *)

\* what the client of h has been sent
Response(h) == [status |-> loc[h].httpStatus, body |-> loc[h].body]

----------------------------------------------------------------------------
(* One answer per request *)

\* the messages of the handler's http.Error calls
ErrorBodies ==
    {"Invalid student ID", "Error fetching student data", "Error generating PDF"}

\* nothing has been written to the client of h
NothingWritten(h) ==
    loc[h].httpStatus = 0 /\ loc[h].body = "" /\ ~loc[h].pdf

\* the client of h was sent 200 and the whole document
DocumentWritten(h) ==
    loc[h].httpStatus = StatusOK /\ loc[h].body = "pdfBytes" /\ loc[h].pdf

\* the client of h was sent an error status and its message, no document
ErrorWritten(h) ==
    /\ loc[h].httpStatus \in {StatusBadRequest, StatusInternalServerError}
    /\ loc[h].body \in ErrorBodies
    /\ ~loc[h].pdf

\* C21: a request that was answered got exactly one of two outcomes, 200 with
\* the whole document or an error status (400 or 500) with no document bytes;
\* nothing is written before the handler answers, and once it has answered
\* nothing more is written, so an error never follows document bytes and
\* document bytes never follow an error
C21_OneOutcome ==
    /\ [](\A h \in Requests :
            IF pc[h] = "done"
            THEN (DocumentWritten(h) /\ ~ErrorWritten(h))
                 \/ (ErrorWritten(h) /\ ~DocumentWritten(h))
            ELSE NothingWritten(h))
    /\ [][\A h \in Requests :
            pc[h] = "done" => pc'[h] = "done" /\ loc'[h] = loc[h]]_vars

\* one request was answered with the document, the other with the error of a
\* failed render
C21_Witness ==
    /\ pc[1] = "done"
    /\ DocumentWritten(1)
    /\ pc[2] = "done"
    /\ ErrorWritten(2)
    /\ loc[2].body = "Error generating PDF"

----------------------------------------------------------------------------
(* The tokens of one request *)

\* the X-CSRF-Token header of the request h has built is its csrfToken cookie
HeaderIsCookie(h) == loc[h].req["X-CSRF-Token"] = loc[h].req["csrfToken"]

\* C22: whatever Authenticator runs go on beside it, a read request that is
\* about to be sent carries the three cookies of one and the same login, and
\* its X-CSRF-Token header has the value of its own csrfToken cookie (stated
\* for an upstream whose login responses all carry the three cookies)
C22_RequestFromOneLogin ==
    conforms =>
        \A h \in Requests :
            pc[h] = "do" =>
                /\ \E n \in 1..logins : RequestTokens(h) = SessionOf(n)
                /\ HeaderIsCookie(h)

----------------------------------------------------------------------------
(* The response to the retried request *)

\* C23: once the retried request has been answered the fetch has returned, with
\* two reads sent and one re-authentication made: a status of exactly 200
\* gives the record or a decode error, every other status (404 and 401
\* included) gives the failure after token refresh, a transport error gives
\* the transport failure of the retry; the not-found failure is never the
\* result, and no status starts another Authenticator run
C23_RetryClassified ==
    \A h \in Requests :
        LET status == loc[h].status2 IN
        status /= NoStatus =>
            /\ pc[h] = "fetched"
            /\ loc[h].status1 = StatusUnauthorized
            /\ loc[h].reads = 2
            /\ loc[h].auths401 = 1
            /\ loc[h].result /= "notfound"
            /\ loc[h].result =
                  IF status = TransportError THEN "transport_retry"
                  ELSE IF status = StatusOK
                       THEN IF loc[h].result = "ok" THEN "ok" ELSE "decode_error"
                  ELSE "upstream_retry"

\* the retried request of one fetch was answered 404, that of the other 401,
\* and both have returned the failure after token refresh
C23_Witness ==
    /\ loc[1].status2 = StatusNotFound
    /\ loc[1].result = "upstream_retry"
    /\ loc[2].status2 = StatusUnauthorized
    /\ loc[2].result = "upstream_retry"
    /\ pc[1] = "fetched" /\ pc[2] = "fetched"

====
